---- MODULE Spec2Model ----
(***************************************************************************)
(* The credit account ledger of src/solution.py: a CreditAccountRecord     *)
(* holds a credit limit and a list of transactions sorted by time; a       *)
(* CreditAccount replays that list, one transaction at a time, against     *)
(* available_credit, payable_balance, pending_txns and settled_txns;       *)
(* get_summary reports the balances, the pending list and the three most   *)
(* recently settled transactions.                                          *)
(***************************************************************************)
EXTENDS Integers, Sequences, FiniteSets

\* ------------------------------------------------------------------ bounds
\* Transactions a record holds at most (Spec).
MaxEvents == 3
\* Transaction ids in use (Spec): 1..NumIds.
NumIds == 2
\* Event times: 1..MaxTime.
MaxTime == 2
\* Amounts carried by events, and credit limits.
Amounts == {-1, 0, 1}
CreditLimits == {1, 2}

\* Txns settled at most (SpecSummary).
MaxSettled == 4
\* Txns a record is constructed from at most (SpecSort).
MaxSortLen == 2

\* ------------------------------------------------------- optional values
\* Python's None and a present value (Optional[int], Optional[object]).
None == <<>>
Some(x) == <<x>>
Val(o) == o[1]

\* --------------------------------------------------------- data model
TransactionClass == {"CREDIT", "PAYMENT"}

TransactionType ==
  {"AUTHED", "SETTLED", "AUTH_CLEARED",
   "PAYMENT_INIT", "PAYMENT_POSTED", "PAYMENT_CANCELED"}

get_class(txn_type) ==
  IF txn_type \in {"AUTHED", "SETTLED", "AUTH_CLEARED"}
    THEN "CREDIT"
    ELSE "PAYMENT"

\* CreditCardTransaction.__init__: initial_time starts as None.
CreditCardTransaction(txn_type, txn_id, time, amount) ==
  [txn_type |-> txn_type, txn_id |-> txn_id, time |-> time,
   amount |-> amount, initial_time |-> None]

\* A record_pending_txn that overrides the resolving txn's own amount.
record_pending_txn_always_inherits(txn, pending_txn) ==
  [txn EXCEPT !.amount = pending_txn.amount,
              !.initial_time = Some(pending_txn.time)]

\* A record_pending_txn that keeps the resolving txn's own time as its
\* initial_time.
record_pending_txn_own_time(txn, pending_txn) ==
  [txn EXCEPT !.amount = IF txn.amount = None THEN pending_txn.amount ELSE @,
              !.initial_time = Some(txn.time)]

\* The resolving txn takes the pending txn's amount when it carries none,
\* and always takes the pending txn's time as its initial_time.
record_pending_txn(txn, pending_txn) ==
  [txn EXCEPT !.amount = IF txn.amount = None THEN pending_txn.amount ELSE @,
              !.initial_time = Some(pending_txn.time)]

\* ------------------------------------------------------------ sequences
RECURSIVE SumAmounts(_)
SumAmounts(txns) ==
  IF txns = <<>> THEN 0
  ELSE Val(Head(txns).amount) + SumAmounts(Tail(txns))

RemoveAt(s, i) == SubSeq(s, 1, i - 1) \o SubSeq(s, i + 1, Len(s))

OfClass(txns, class) ==
  SelectSeq(txns, LAMBDA t : get_class(t.txn_type) = class)

TxnIdsOf(txns) == {txns[i].txn_id : i \in 1..Len(txns)}

\* ------------------------------------------------------ the account ledger
NoError == "none"
Errors ==
  {"RepeatedId", "InsufficientFunds", "PaymentTooLarge",
   "PendingNotFound", "ClassMismatch"}

\* CreditAccount.__init__ before the replay: a fresh ledger.
NewAccount(limit) ==
  [credit_limit |-> limit,
   available_credit |-> limit,
   payable_balance |-> 0,
   pending_txns |-> <<>>,
   settled_txns |-> <<>>,
   previos_txn_ids |-> {},
   error |-> NoError]

Raise(acct, err) == [acct EXCEPT !.error = err]

\* An _ensure_txn_id_unique that forgets to reserve the id.
ensure_txn_id_unique_forgets(acct, txn) ==
  IF txn.txn_id \in acct.previos_txn_ids
    THEN Raise(acct, "RepeatedId")
    ELSE acct

\* An _ensure_txn_id_unique that reserves the id without checking it.
ensure_txn_id_unique_unchecked(acct, txn) ==
  [acct EXCEPT !.previos_txn_ids = @ \cup {txn.txn_id}]

\* _ensure_txn_id_unique: raises on an id already in previos_txn_ids, and
\* reserves the id otherwise.
ensure_txn_id_unique(acct, txn) ==
  IF txn.txn_id \in acct.previos_txn_ids
    THEN Raise(acct, "RepeatedId")
    ELSE [acct EXCEPT !.previos_txn_ids = @ \cup {txn.txn_id}]

\* The position in pending_txns of the first entry with txn's id, 0 if none:
\* next(filter(...), None).
PendingIndex(pending_txns, txn) ==
  LET hits == {i \in 1..Len(pending_txns) :
                 pending_txns[i].txn_id = txn.txn_id}
  IN IF hits = {} THEN 0
     ELSE CHOOSE i \in hits : \A j \in hits : i <= j

\* A _find_pending without the class check.
find_pending_error_any_class(pending_txns, txn) ==
  IF PendingIndex(pending_txns, txn) = 0 THEN "PendingNotFound" ELSE NoError

\* _find_pending's outcome: the error it raises, or "none".
find_pending_error(pending_txns, txn) ==
  LET i == PendingIndex(pending_txns, txn)
  IN IF i = 0 THEN "PendingNotFound"
     ELSE IF get_class(pending_txns[i].txn_type) # get_class(txn.txn_type)
       THEN "ClassMismatch"
       ELSE NoError

\* An AUTHED branch without the credit check.
process_authed_unchecked(acct, txn) ==
  LET a == ensure_txn_id_unique(acct, txn)
  IN IF a.error # NoError THEN a
     ELSE [a EXCEPT !.available_credit = @ - Val(txn.amount),
                    !.pending_txns = Append(@, txn)]

\* An AUTHED branch that takes the hold first and checks the credit left
\* afterwards.
process_authed_checks_late(acct, txn) ==
  LET a == ensure_txn_id_unique(acct, txn)
      held == [a EXCEPT !.available_credit = @ - Val(txn.amount),
                        !.pending_txns = Append(@, txn)]
  IN IF a.error # NoError THEN a
     ELSE IF held.available_credit < 0
       THEN Raise(held, "InsufficientFunds")
       ELSE held

process_authed(acct, txn) ==
  LET a == ensure_txn_id_unique(acct, txn)
  IN IF a.error # NoError THEN a
     ELSE IF a.available_credit < Val(txn.amount)
       THEN Raise(a, "InsufficientFunds")
       ELSE [a EXCEPT !.available_credit = @ - Val(txn.amount),
                      !.pending_txns = Append(@, txn)]

\* A SETTLED branch that does not release the authorization hold.
process_settled_keeps_hold(acct, txn) ==
  LET err == find_pending_error(acct.pending_txns, txn)
      i == PendingIndex(acct.pending_txns, txn)
      pending_txn == acct.pending_txns[i]
      settled == record_pending_txn(txn, pending_txn)
  IN IF err # NoError THEN Raise(acct, err)
     ELSE [acct EXCEPT
             !.available_credit = @ - Val(settled.amount),
             !.payable_balance = @ + Val(settled.amount),
             !.pending_txns = RemoveAt(@, i),
             !.settled_txns = Append(@, settled)]

\* A SETTLED branch that charges the authorized amount, not the settled one,
\* to payable_balance.
process_settled_charges_pending(acct, txn) ==
  LET err == find_pending_error(acct.pending_txns, txn)
      i == PendingIndex(acct.pending_txns, txn)
      pending_txn == acct.pending_txns[i]
      settled == record_pending_txn(txn, pending_txn)
  IN IF err # NoError THEN Raise(acct, err)
     ELSE [acct EXCEPT
             !.available_credit =
               (@ + Val(pending_txn.amount)) - Val(settled.amount),
             !.payable_balance = @ + Val(pending_txn.amount),
             !.pending_txns = RemoveAt(@, i),
             !.settled_txns = Append(@, settled)]

process_settled(acct, txn) ==
  LET err == find_pending_error(acct.pending_txns, txn)
      i == PendingIndex(acct.pending_txns, txn)
      pending_txn == acct.pending_txns[i]
      settled == record_pending_txn(txn, pending_txn)
  IN IF err # NoError THEN Raise(acct, err)
     ELSE [acct EXCEPT
             !.available_credit =
               (@ + Val(pending_txn.amount)) - Val(settled.amount),
             !.payable_balance = @ + Val(settled.amount),
             !.pending_txns = RemoveAt(@, i),
             !.settled_txns = Append(@, settled)]

\* An AUTH_CLEARED branch that does not release the authorization hold.
process_auth_cleared_keeps_hold(acct, txn) ==
  LET err == find_pending_error(acct.pending_txns, txn)
      i == PendingIndex(acct.pending_txns, txn)
  IN IF err # NoError THEN Raise(acct, err)
     ELSE [acct EXCEPT !.pending_txns = RemoveAt(@, i)]

process_auth_cleared(acct, txn) ==
  LET err == find_pending_error(acct.pending_txns, txn)
      i == PendingIndex(acct.pending_txns, txn)
      pending_txn == acct.pending_txns[i]
  IN IF err # NoError THEN Raise(acct, err)
     ELSE [acct EXCEPT
             !.available_credit = @ + Val(pending_txn.amount),
             !.pending_txns = RemoveAt(@, i)]

\* A PAYMENT_INIT branch that compares the balance with the amount as
\* signed, not negated.
process_payment_init_unnegated(acct, txn) ==
  LET a == ensure_txn_id_unique(acct, txn)
  IN IF a.error # NoError THEN a
     ELSE IF a.payable_balance < Val(txn.amount)
       THEN Raise(a, "PaymentTooLarge")
       ELSE [a EXCEPT !.payable_balance = @ + Val(txn.amount),
                      !.pending_txns = Append(@, txn)]

process_payment_init(acct, txn) ==
  LET a == ensure_txn_id_unique(acct, txn)
  IN IF a.error # NoError THEN a
     ELSE IF a.payable_balance < -Val(txn.amount)
       THEN Raise(a, "PaymentTooLarge")
       ELSE [a EXCEPT !.payable_balance = @ + Val(txn.amount),
                      !.pending_txns = Append(@, txn)]

\* A PAYMENT_POSTED branch that adds the payment's amount to
\* available_credit.
process_payment_posted_adds(acct, txn) ==
  LET err == find_pending_error(acct.pending_txns, txn)
      i == PendingIndex(acct.pending_txns, txn)
      pending_txn == acct.pending_txns[i]
      settled == record_pending_txn(txn, pending_txn)
  IN IF err # NoError THEN Raise(acct, err)
     ELSE [acct EXCEPT
             !.available_credit = @ + Val(pending_txn.amount),
             !.pending_txns = RemoveAt(@, i),
             !.settled_txns = Append(@, settled)]

\* A PAYMENT_POSTED branch that takes the posted txn's own amount, where it
\* carries one, from available_credit.
process_payment_posted_own_amount(acct, txn) ==
  LET err == find_pending_error(acct.pending_txns, txn)
      i == PendingIndex(acct.pending_txns, txn)
      pending_txn == acct.pending_txns[i]
      settled == record_pending_txn(txn, pending_txn)
  IN IF err # NoError THEN Raise(acct, err)
     ELSE [acct EXCEPT
             !.available_credit = @ - Val(settled.amount),
             !.pending_txns = RemoveAt(@, i),
             !.settled_txns = Append(@, settled)]

process_payment_posted(acct, txn) ==
  LET err == find_pending_error(acct.pending_txns, txn)
      i == PendingIndex(acct.pending_txns, txn)
      pending_txn == acct.pending_txns[i]
      settled == record_pending_txn(txn, pending_txn)
  IN IF err # NoError THEN Raise(acct, err)
     ELSE [acct EXCEPT
             !.available_credit = @ - Val(pending_txn.amount),
             !.pending_txns = RemoveAt(@, i),
             !.settled_txns = Append(@, settled)]

\* A PAYMENT_CANCELED branch that adds the payment's amount once more.
process_payment_canceled_adds(acct, txn) ==
  LET err == find_pending_error(acct.pending_txns, txn)
      i == PendingIndex(acct.pending_txns, txn)
      pending_txn == acct.pending_txns[i]
  IN IF err # NoError THEN Raise(acct, err)
     ELSE [acct EXCEPT
             !.payable_balance = @ + Val(pending_txn.amount),
             !.pending_txns = RemoveAt(@, i)]

\* A PAYMENT_CANCELED branch that leaves the entry in pending_txns.
process_payment_canceled_keeps_pending(acct, txn) ==
  LET err == find_pending_error(acct.pending_txns, txn)
      i == PendingIndex(acct.pending_txns, txn)
      pending_txn == acct.pending_txns[i]
  IN IF err # NoError THEN Raise(acct, err)
     ELSE [acct EXCEPT !.payable_balance = @ - Val(pending_txn.amount)]

process_payment_canceled(acct, txn) ==
  LET err == find_pending_error(acct.pending_txns, txn)
      i == PendingIndex(acct.pending_txns, txn)
      pending_txn == acct.pending_txns[i]
  IN IF err # NoError THEN Raise(acct, err)
     ELSE [acct EXCEPT
             !.payable_balance = @ - Val(pending_txn.amount),
             !.pending_txns = RemoveAt(@, i)]

\* _process_txn: one branch per transaction type.
process_txn(acct, txn) ==
  CASE txn.txn_type = "AUTHED" -> process_authed(acct, txn)
    [] txn.txn_type = "SETTLED" -> process_settled(acct, txn)
    [] txn.txn_type = "AUTH_CLEARED" -> process_auth_cleared(acct, txn)
    [] txn.txn_type = "PAYMENT_INIT" -> process_payment_init(acct, txn)
    [] txn.txn_type = "PAYMENT_POSTED" -> process_payment_posted(acct, txn)
    [] txn.txn_type = "PAYMENT_CANCELED" -> process_payment_canceled(acct, txn)

\* ------------------------------------------------------------ get_summary
\* list.sort(key=time, reverse=True): a stable sort, so records with equal
\* times keep their relative order.  x goes behind every record whose time
\* is at least its own.
RECURSIVE InsertByTimeDesc(_, _)
InsertByTimeDesc(x, sorted) ==
  IF sorted = <<>> THEN <<x>>
  ELSE IF Head(sorted).time >= x.time
    THEN <<Head(sorted)>> \o InsertByTimeDesc(x, Tail(sorted))
    ELSE <<x>> \o sorted

\* A get_summary that sorts without reverse=True.
RECURSIVE sort_by_time_ascending(_)
sort_by_time_ascending(txns) ==
  IF txns = <<>> THEN <<>>
  ELSE LET rest == sort_by_time_ascending(SubSeq(txns, 1, Len(txns) - 1))
           x == txns[Len(txns)]
           k == Cardinality({i \in 1..Len(rest) : rest[i].time <= x.time})
       IN SubSeq(rest, 1, k) \o <<x>> \o SubSeq(rest, k + 1, Len(rest))

\* A get_summary that sorts ascending and reverses the result, which also
\* reverses the records with equal times.
sort_by_time_desc_reversed(txns) ==
  LET ascending == sort_by_time_ascending(txns)
  IN [i \in 1..Len(ascending) |-> ascending[Len(ascending) + 1 - i]]

RECURSIVE sort_by_time_desc(_)
sort_by_time_desc(txns) ==
  IF txns = <<>> THEN <<>>
  ELSE InsertByTimeDesc(txns[Len(txns)],
                        sort_by_time_desc(SubSeq(txns, 1, Len(txns) - 1)))

\* settled_txns[0:3]
RecentCount == 3
recent_settled(sorted) ==
  SubSeq(sorted, 1, IF Len(sorted) < RecentCount THEN Len(sorted) ELSE RecentCount)

CreditAccountSummary(available, payable, pending, recent) ==
  [available_credit |-> available,
   payable_balance |-> payable,
   pending_txns |-> pending,
   recent_settled_txns |-> recent]

\* ------------------------------------------------- CreditAccountRecord
\* list.sort(key=time): a stable ascending sort.  x goes behind every txn
\* whose time is at most its own.
RECURSIVE InsertByTime(_, _)
InsertByTime(x, sorted) ==
  IF sorted = <<>> THEN <<x>>
  ELSE IF Head(sorted).time <= x.time
    THEN <<Head(sorted)>> \o InsertByTime(x, Tail(sorted))
    ELSE <<x>> \o sorted

\* A constructor that leaves the txns in the order given.
sort_by_time_skipped(txns) == txns

RECURSIVE sort_by_time(_)
sort_by_time(txns) ==
  IF txns = <<>> THEN <<>>
  ELSE InsertByTime(txns[Len(txns)],
                    sort_by_time(SubSeq(txns, 1, Len(txns) - 1)))

\* _process_txns: pop and process until the list is empty or a txn raises.
\* The result is the ledger and the txns left in the list.
RECURSIVE process_txns(_, _)
process_txns(acct, txns) ==
  IF txns = <<>> \/ acct.error # NoError
    THEN [account |-> acct, unprocessed_txns |-> txns]
    ELSE process_txns(process_txn(acct, Head(txns)), Tail(txns))

\* ------------------------------------------------------------------ state
VARIABLES
  credit_limit,      \* CreditAccountRecord.credit_limit
  events,            \* the txns in the order the record was given them (SpecSort)
  txns,              \* record.txns as a list (SpecSort)
  unprocessed,       \* len(record.txns), the list CreditAccount pops from
  last_time,         \* the time of the last txn popped from the sorted list
  available_credit,
  payable_balance,
  pending_txns,
  settled_txns,
  previos_txn_ids,
  txn,               \* the txn _process_txn was last called with, or None
  error,             \* the error the replay raised, or "none"
  pc,                \* "input" | "record" | "processing" | "account" | "raised"
  summary            \* the summary get_summary returned, or None

vars ==
  <<credit_limit, events, txns, unprocessed, last_time, available_credit,
    payable_balance, pending_txns, settled_txns, previos_txn_ids, txn, error,
    pc, summary>>

\* The ledger as one value.
Account ==
  [credit_limit |-> credit_limit,
   available_credit |-> available_credit,
   payable_balance |-> payable_balance,
   pending_txns |-> pending_txns,
   settled_txns |-> settled_txns,
   previos_txn_ids |-> previos_txn_ids,
   error |-> error]

SetAccount(acct) ==
  /\ available_credit' = acct.available_credit
  /\ payable_balance' = acct.payable_balance
  /\ pending_txns' = acct.pending_txns
  /\ settled_txns' = acct.settled_txns
  /\ previos_txn_ids' = acct.previos_txn_ids
  /\ error' = acct.error

\* ----------------------------------------------------------------- inputs
TxnIds == 1..NumIds
Times == 1..MaxTime

\* from_json: AUTHED and PAYMENT_INIT carry an amount, SETTLED and
\* PAYMENT_POSTED may, and the amount of AUTH_CLEARED and PAYMENT_CANCELED
\* is never read.
AmountsOf(txn_type) ==
  CASE txn_type \in {"AUTHED", "PAYMENT_INIT"} -> {Some(a) : a \in Amounts}
    [] txn_type \in {"SETTLED", "PAYMENT_POSTED"} ->
         {None} \cup {Some(a) : a \in Amounts}
    [] OTHER -> {None}

EventsOf(txn_type, ids) ==
  {CreditCardTransaction(txn_type, id, time, amount) :
     id \in ids, time \in Times, amount \in AmountsOf(txn_type)}

\* ------------------------------------------------------------------ Init
NoAccount ==
  /\ available_credit = 0
  /\ payable_balance = 0
  /\ pending_txns = <<>>
  /\ settled_txns = <<>>
  /\ previos_txn_ids = {}
  /\ txn = None
  /\ error = NoError
  /\ summary = None

\* A CreditAccountRecord was constructed: the limit is positive and the
\* txns are sorted by time.  The txns themselves are drawn as they are
\* popped, each no earlier than the one before it.
Init ==
  /\ credit_limit \in CreditLimits
  /\ unprocessed \in 0..MaxEvents
  /\ events = <<>>
  /\ txns = <<>>
  /\ last_time = 1
  /\ pc = "record"
  /\ NoAccount

\* ---------------------------------------------------------------- actions
\* process_account -> CreditAccount.__init__: a fresh ledger over the
\* record's list; with nothing to pop the replay ends at once.
ProcessAccount ==
  /\ pc \in {"record", "account"}
  /\ SetAccount(NewAccount(credit_limit))
  /\ txn' = None
  /\ summary' = None
  /\ pc' = IF unprocessed = 0 THEN "account" ELSE "processing"
  /\ UNCHANGED <<credit_limit, events, txns, unprocessed, last_time>>

\* A replay loop that swallows the error and goes on.
ProcessTxn_swallows(t) ==
  /\ pc = "processing"
  /\ unprocessed > 0
  /\ unprocessed' = unprocessed - 1
  /\ last_time' = t.time
  /\ txn' = Some(t)
  /\ LET acct == process_txn(Account, t)
     IN /\ SetAccount(IF acct.error # NoError THEN Account ELSE acct)
        /\ pc' = IF unprocessed = 1 THEN "account" ELSE "processing"
  /\ UNCHANGED <<credit_limit, events, summary>>

\* One turn of _process_txns' loop on the popped txn t: a raise ends the
\* replay, and so does an empty list.
ProcessTxn(t) ==
  /\ pc = "processing"
  /\ unprocessed > 0
  /\ unprocessed' = unprocessed - 1
  /\ last_time' = t.time
  /\ txn' = Some(t)
  /\ LET acct == process_txn(Account, t)
     IN /\ SetAccount(acct)
        /\ pc' = IF acct.error # NoError THEN "raised"
                 ELSE IF unprocessed = 1 THEN "account"
                 ELSE "processing"
  /\ UNCHANGED <<credit_limit, events, summary>>

\* The next txn of a sorted list is no earlier than the last one popped.
ProcessNext(t) ==
  /\ t.time >= last_time
  /\ ProcessTxn(t)
  /\ UNCHANGED txns

Authed == \E t \in EventsOf("AUTHED", TxnIds) : ProcessNext(t)
Settled == \E t \in EventsOf("SETTLED", TxnIds) : ProcessNext(t)
AuthCleared == \E t \in EventsOf("AUTH_CLEARED", TxnIds) : ProcessNext(t)
PaymentInit == \E t \in EventsOf("PAYMENT_INIT", TxnIds) : ProcessNext(t)
PaymentPosted == \E t \in EventsOf("PAYMENT_POSTED", TxnIds) : ProcessNext(t)
PaymentCanceled ==
  \E t \in EventsOf("PAYMENT_CANCELED", TxnIds) : ProcessNext(t)

\* get_summary on the account process_account returned: sorts settled_txns
\* in place and reports its first three.
GetSummary ==
  /\ pc = "account"
  /\ settled_txns' = sort_by_time_desc(settled_txns)
  /\ summary' = Some(CreditAccountSummary(available_credit, payable_balance,
                                          pending_txns,
                                          recent_settled(settled_txns')))
  /\ UNCHANGED <<credit_limit, events, txns, unprocessed, last_time,
                 available_credit, payable_balance, pending_txns,
                 previos_txn_ids, txn, error, pc>>

Next ==
  \/ ProcessAccount
  \/ Authed
  \/ Settled
  \/ AuthCleared
  \/ PaymentInit
  \/ PaymentPosted
  \/ PaymentCanceled
  \/ GetSummary

Spec == Init /\ [][Next]_vars

\* --------------------------------------------------------- SpecSummary
\* Replays that settle up to MaxSettled txns: each txn is authorized for 0
\* and settled with the inherited amount; ids are opened in the order
\* 1, 2, ...
InitSummary ==
  /\ credit_limit \in CreditLimits
  /\ unprocessed \in 0..(2 * MaxSettled)
  /\ events = <<>>
  /\ txns = <<>>
  /\ last_time = 1
  /\ pc = "record"
  /\ NoAccount

SummaryAuthed ==
  /\ Cardinality(previos_txn_ids) < MaxSettled
  /\ \E time \in Times :
       ProcessNext(CreditCardTransaction(
         "AUTHED", Cardinality(previos_txn_ids) + 1, time, Some(0)))

SummarySettled ==
  \E id \in TxnIdsOf(pending_txns), time \in Times :
    ProcessNext(CreditCardTransaction("SETTLED", id, time, None))

NextSummary ==
  \/ ProcessAccount
  \/ SummaryAuthed
  \/ SummarySettled
  \/ GetSummary

SpecSummary == InitSummary /\ [][NextSummary]_vars

\* ------------------------------------------------------------ SpecSort
\* The record's constructor and the replay over an explicit list of txns,
\* given in any order.
SortIds == {1}
SortEvents == UNION {EventsOf(txn_type, SortIds) : txn_type \in TransactionType}

RECURSIVE ListsUpTo(_, _)
ListsUpTo(alphabet, n) ==
  IF n = 0 THEN {<<>>}
  ELSE LET shorter == ListsUpTo(alphabet, n - 1)
       IN shorter \cup {Append(l, e) : l \in shorter, e \in alphabet}

InitSort ==
  /\ credit_limit \in CreditLimits
  /\ events \in ListsUpTo(SortEvents, MaxSortLen)
  /\ txns = events
  /\ unprocessed = Len(txns)
  /\ last_time = 1
  /\ pc = "input"
  /\ NoAccount

\* CreditAccountRecord.__init__: the limit is positive; sort the txns.
Construct ==
  /\ pc = "input"
  /\ credit_limit > 0
  /\ txns' = sort_by_time(txns)
  /\ pc' = "record"
  /\ UNCHANGED <<credit_limit, events, unprocessed, last_time,
                 available_credit, payable_balance, pending_txns,
                 settled_txns, previos_txn_ids, txn, error, summary>>

\* One turn of _process_txns' loop: unprocessed_txns.pop(0), _process_txn.
PopTxn ==
  /\ txns # <<>>
  /\ ProcessTxn(Head(txns))
  /\ txns' = Tail(txns)

NextSort ==
  \/ Construct
  \/ ProcessAccount
  \/ PopTxn
  \/ GetSummary

SpecSort == InitSort /\ [][NextSort]_vars

\* ----------------------------------------------------- steps of the replay
Openers == {"AUTHED", "PAYMENT_INIT"}
Resolvers == {"SETTLED", "AUTH_CLEARED", "PAYMENT_POSTED", "PAYMENT_CANCELED"}

\* This step popped a txn (txn') and processed it.
Stepped == pc = "processing" /\ unprocessed' = unprocessed - 1
\* ... and the txn was applied.
Applied == Stepped /\ error' = NoError
\* The last txn popped was applied and is of one of these types.
LastApplied(types) ==
  /\ pc \in {"processing", "account"}
  /\ txn # None
  /\ Val(txn).txn_type \in types

PendingCredit == SumAmounts(OfClass(pending_txns, "CREDIT"))
PendingPayment == SumAmounts(OfClass(pending_txns, "PAYMENT"))
Last(s) == s[Len(s)]
Abs(x) == IF x < 0 THEN -x ELSE x

\* The pending entry the popped txn t resolves.
PendingOf(t) == pending_txns[PendingIndex(pending_txns, t)]

\* ------------------------------------------------------------------ claims

\* C1 as stated: after each applied AUTHED, AUTH_CLEARED or SETTLED txn,
\* available_credit plus the pending CREDIT amounts equals credit_limit.
C1_CreditConservation ==
  LastApplied({"AUTHED", "AUTH_CLEARED", "SETTLED"})
    => available_credit + PendingCredit = credit_limit

\* C1 amended: an applied AUTHED or AUTH_CLEARED txn leaves available_credit
\* plus the pending CREDIT amounts unchanged, and an applied SETTLED txn
\* lowers it by the settled amount; the sum is credit_limit in a fresh ledger.
C1_CreditConservationBySteps ==
  [][/\ (pc' \in {"processing", "account"} /\ txn' = None)
           => available_credit' + PendingCredit' = credit_limit
     /\ (Applied /\ Val(txn').txn_type \in {"AUTHED", "AUTH_CLEARED"})
           => available_credit' + PendingCredit'
                = available_credit + PendingCredit
     /\ (Applied /\ Val(txn').txn_type = "SETTLED")
           => available_credit' + PendingCredit'
                = (available_credit + PendingCredit)
                    - Val(Last(settled_txns').amount)]_vars

\* A SETTLED txn with an amount other than 0 was applied.
C1_Witness ==
  /\ LastApplied({"SETTLED"})
  /\ settled_txns # <<>>
  /\ Val(Last(settled_txns).amount) # 0
  /\ available_credit + PendingCredit # credit_limit

C3_RepeatedIdRaises ==
  [][/\ Stepped => previos_txn_ids \subseteq previos_txn_ids'
     /\ (Applied /\ Val(txn').txn_type \in Openers)
          => Val(txn').txn_id \in previos_txn_ids'
     /\ (Stepped /\ Val(txn').txn_type \in Openers
           /\ Val(txn').txn_id \in previos_txn_ids)
          => pc' = "raised" /\ error' = "RepeatedId"]_vars

\* A PAYMENT_INIT txn raised on the id of an AUTHED txn settled before.
C3_Witness ==
  /\ pc = "raised"
  /\ error = "RepeatedId"
  /\ Val(txn).txn_type = "PAYMENT_INIT"
  /\ pending_txns = <<>>
  /\ settled_txns # <<>>
  /\ Last(settled_txns).txn_id = Val(txn).txn_id
  /\ Last(settled_txns).txn_type = "SETTLED"

\* C4: a resolving txn raises not-found when its id was never opened and
\* class-mismatch when the pending entry with its id is of the other class,
\* and the ledger's balances and lists are then as before.
C4_ResolverRaises ==
  [][(Stepped /\ Val(txn').txn_type \in Resolvers)
       => /\ Val(txn').txn_id \notin previos_txn_ids
               => pc' = "raised" /\ error' = "PendingNotFound"
          /\ (\E i \in 1..Len(pending_txns) :
                /\ pending_txns[i].txn_id = Val(txn').txn_id
                /\ get_class(pending_txns[i].txn_type)
                     # get_class(Val(txn').txn_type))
               => pc' = "raised" /\ error' = "ClassMismatch"
          /\ error' # NoError
               => UNCHANGED <<available_credit, payable_balance,
                              pending_txns, settled_txns>>]_vars

\* A CREDIT resolver raised class-mismatch on a pending PAYMENT_INIT entry.
C4_Witness ==
  /\ pc = "raised"
  /\ error = "ClassMismatch"
  /\ Val(txn).txn_type \in {"SETTLED", "AUTH_CLEARED"}
  /\ \E i \in 1..Len(pending_txns) :
       /\ pending_txns[i].txn_id = Val(txn).txn_id
       /\ pending_txns[i].txn_type = "PAYMENT_INIT"

\* C5: a summary exists only of a replay that applied every txn; the first
\* txn _process_txn does not accept ends the replay with the txns behind it
\* unapplied, the error and no summary.
C5_AllOrNothing ==
  /\ [](/\ summary # None => pc = "account"
        /\ pc = "account" => error = NoError /\ unprocessed = 0
        /\ pc = "processing" => error = NoError /\ unprocessed > 0
        /\ pc = "raised" => error \in Errors /\ summary = None)
  /\ [][pc = "raised" => UNCHANGED vars]_vars
  /\ [][Stepped =>
         /\ process_txn(Account, Val(txn')).error # NoError
              => pc' = "raised" /\ error' # NoError
         /\ process_txn(Account, Val(txn')).error = NoError
              => /\ error' = NoError
                 /\ pc' = IF unprocessed' = 0 THEN "account" ELSE "processing"]_vars

\* The second of three txns raised: the third is left and no summary exists.
C5_Witness ==
  /\ pc = "raised"
  /\ unprocessed > 0
  /\ pending_txns # <<>>
  /\ summary = None

\* The orders a list of txns can be given in.
Permutations(l) ==
  {[i \in 1..Len(l) |-> l[f[i]]] :
     f \in {g \in [1..Len(l) -> 1..Len(l)] :
              \A i, j \in 1..Len(l) : g[i] = g[j] => i = j}}

IsSortedByTime(l) == \A i, j \in 1..Len(l) : i < j => l[i].time <= l[j].time
DistinctTimes(l) == \A i, j \in 1..Len(l) : l[i].time = l[j].time => i = j

\* The ledger after CreditAccountRecord(limit, l).process_account(): the
\* balances, the lists and the error, if any.
Outcome(limit, l) == process_txns(NewAccount(limit), sort_by_time(l)).account

\* process_account has returned or raised, for the first time.
Replayed ==
  /\ pc \in {"account", "raised"}
  /\ summary = None
  /\ txn # None \/ events = <<>>

\* C6 as stated: whatever order the txns are given in, the ledger ends as it
\* does for the same txns given sorted by time.
C6_AnyOrderAsSorted ==
  Replayed =>
    \A sorted \in Permutations(events) :
      IsSortedByTime(sorted) => Account = Outcome(credit_limit, sorted)

\* C6 amended: for txns with pairwise distinct times, whatever order they are
\* given in, the ledger ends as it does for the same txns given sorted by
\* time.  (Txns with equal times are replayed in the order given.)
C6_AnyOrderAsSortedDistinctTimes ==
  (Replayed /\ DistinctTimes(events)) =>
    \A sorted \in Permutations(events) :
      IsSortedByTime(sorted) => Account = Outcome(credit_limit, sorted)

\* Two txns with distinct times, given latest first, were replayed and the
\* second one given opened what the first one given settled.
C6_Witness ==
  /\ Replayed
  /\ Len(events) = 2
  /\ events[1].time > events[2].time
  /\ error = NoError
  /\ Val(txn) = events[1]
  /\ settled_txns # <<>>

Min(a, b) == IF a < b THEN a ELSE b
Records(l) == {l[i] : i \in 1..Len(l)}

\* C7: the summary lists min(3, number of settled records) records of
\* settled_txns, no record left out is later than a listed one, and the
\* listed records are in non-increasing order of time.
C7_SummaryListsMostRecent ==
  [][(pc = "account" /\ summary' # None)
       => LET recent == Val(summary').recent_settled_txns
          IN /\ Len(recent) = Min(3, Len(settled_txns))
             /\ Records(recent) \subseteq Records(settled_txns)
             /\ Cardinality(Records(recent)) = Len(recent)
             /\ \A x \in Records(settled_txns) \ Records(recent) :
                  \A y \in Records(recent) : x.time <= y.time
             /\ \A i, j \in 1..Len(recent) :
                  i < j => recent[i].time >= recent[j].time]_vars

\* A summary of four settled records, the one left out the earliest.
C7_Witness ==
  /\ summary # None
  /\ Len(settled_txns) = 4
  /\ Len(Val(summary).recent_settled_txns) = 3
  /\ settled_txns[4].time < settled_txns[3].time

C9_PaymentWithinBalanceMagnitude ==
  [][(Stepped /\ Val(txn').txn_type = "PAYMENT_INIT")
       => /\ error' = NoError
               => Abs(Val(Val(txn').amount)) <= Abs(payable_balance)
          /\ (Abs(Val(Val(txn').amount)) > Abs(payable_balance)
                /\ Val(txn').txn_id \notin previos_txn_ids)
               => pc' = "raised" /\ error' = "PaymentTooLarge"]_vars

\* C9 amended: the comparison is signed.  An applied PAYMENT_INIT txn has
\* -amount <= payable_balance, and one with a fresh id and
\* payable_balance < -amount raises payment-too-large.
C9_PaymentWithinBalance ==
  [][(Stepped /\ Val(txn').txn_type = "PAYMENT_INIT")
       => /\ error' = NoError
               => -Val(Val(txn').amount) <= payable_balance
          /\ (payable_balance < -Val(Val(txn').amount)
                /\ Val(txn').txn_id \notin previos_txn_ids)
               => pc' = "raised" /\ error' = "PaymentTooLarge"]_vars

\* A payment of -1 was applied against a settled balance.
C9_Witness ==
  /\ LastApplied({"PAYMENT_INIT"})
  /\ Val(Val(txn).amount) < 0
  /\ settled_txns # <<>>
  /\ Last(pending_txns) = Val(txn)

\* C10: pending_txns holds at most one entry per txn id.
C10_OnePendingPerId ==
  \A i, j \in 1..Len(pending_txns) :
    pending_txns[i].txn_id = pending_txns[j].txn_id => i = j

\* Two txns are pending, and a third txn raised repeated-id on one of them.
C10_Witness ==
  /\ Len(pending_txns) = 2
  /\ error = "RepeatedId"
  /\ Val(txn).txn_id \in TxnIdsOf(pending_txns)

\* The ids with an entry in pending_txns.
PendingIds == TxnIdsOf(pending_txns)

\* This step is process_account constructing a fresh ledger.
NewLedger == pc \in {"record", "account"} /\ txn' = None /\ summary' = None

\* C11: a txn id moves only forward through no-record, pending, resolved.  An
\* id becomes pending only by an applied AUTHED or PAYMENT_INIT txn with an id
\* not used before; it stops being pending only by an applied resolving txn
\* with that id and of its pending entry's class; every applied resolving txn
\* takes its id out of pending_txns; and an id that was pending and no longer
\* is stays so, every further txn with that id raising.
C11_IdsMoveForward ==
  /\ [](pc \in {"processing", "account"} => PendingIds \subseteq previos_txn_ids)
  /\ [][\A id \in TxnIds :
          /\ (id \notin PendingIds /\ id \in PendingIds')
                => /\ Applied
                   /\ Val(txn').txn_type \in Openers
                   /\ Val(txn').txn_id = id
                   /\ id \notin previos_txn_ids
          /\ (id \in PendingIds /\ id \notin PendingIds')
                => \/ NewLedger
                   \/ /\ Applied
                      /\ Val(txn').txn_type \in Resolvers
                      /\ Val(txn').txn_id = id
                      /\ get_class(Val(txn').txn_type)
                           = get_class(PendingOf(Val(txn')).txn_type)
          /\ (Applied /\ Val(txn').txn_type \in Resolvers
                 /\ Val(txn').txn_id = id)
                => id \in PendingIds /\ id \notin PendingIds'
          /\ (id \in previos_txn_ids /\ id \notin PendingIds /\ ~NewLedger)
                => id \in previos_txn_ids' /\ id \notin PendingIds'
          /\ (Stepped /\ Val(txn').txn_id = id
                 /\ id \in previos_txn_ids /\ id \notin PendingIds)
                => pc' = "raised" /\ error' # NoError]_vars

\* A txn was opened and resolved, and a second resolving txn with its id
\* raised not-found.
C11_Witness ==
  /\ pc = "raised"
  /\ error = "PendingNotFound"
  /\ Val(txn).txn_type \in Resolvers
  /\ Val(txn).txn_id \in previos_txn_ids
  /\ Val(txn).txn_id \notin PendingIds

\* The place of record r in the list s of distinct records.
PositionIn(s, r) == CHOOSE i \in 1..Len(s) : s[i] = r

\* This step is the first get_summary on the ledger: settled_txns is still in
\* the order the records were settled in.
FirstSummary == pc = "account" /\ summary = None /\ summary' # None

\* C12 as stated: of settled records with equal times the summary lists the
\* one settled later first, and reports the first three of that order.
C12_TiesLatestSettledFirst ==
  [][FirstSummary
       => /\ \A i, j \in 1..Len(settled_txns) :
               (i < j /\ settled_txns[i].time = settled_txns[j].time)
                 => PositionIn(settled_txns', settled_txns[j])
                      < PositionIn(settled_txns', settled_txns[i])
          /\ Val(summary').recent_settled_txns
               = SubSeq(settled_txns', 1, Min(3, Len(settled_txns')))]_vars

\* C12 amended: get_summary orders the settled records by time, latest
\* first, records with equal times in the order they were settled in (the one
\* settled earlier first), and reports the first three of that order.
C12_TiesEarliestSettledFirst ==
  [][FirstSummary
       => /\ Len(settled_txns') = Len(settled_txns)
          /\ Records(settled_txns') = Records(settled_txns)
          /\ \A i, j \in 1..Len(settled_txns') :
               i < j => settled_txns'[i].time >= settled_txns'[j].time
          /\ \A i, j \in 1..Len(settled_txns) :
               (i < j /\ settled_txns[i].time = settled_txns[j].time)
                 => PositionIn(settled_txns', settled_txns[i])
                      < PositionIn(settled_txns', settled_txns[j])
          /\ Val(summary').recent_settled_txns
               = SubSeq(settled_txns', 1, Min(3, Len(settled_txns')))]_vars

\* A summary of four settled records, the third and the fourth of equal
\* times: the cut-off falls between records that tie.
C12_Witness ==
  /\ summary # None
  /\ Len(settled_txns) = 4
  /\ settled_txns[3].time = settled_txns[4].time
  /\ settled_txns[3].txn_id > settled_txns[4].txn_id
  /\ Val(summary).recent_settled_txns = SubSeq(settled_txns, 1, 3)

\* C13: an applied SETTLED txn for the pending CREDIT entry p takes p out of
\* pending_txns, appends one record to settled_txns, adds p's amount to
\* available_credit and takes the record's amount from it, and adds the
\* record's amount to payable_balance.  When p, authorized for a, is all that
\* was applied to the ledger and the txn carries the amount a, this leaves
\* available_credit = credit_limit - a, payable_balance = a and nothing
\* pending.
C13_SettledEffect ==
  [][(Applied /\ Val(txn').txn_type = "SETTLED")
       => LET t == Val(txn')
              i == PendingIndex(pending_txns, t)
              p == pending_txns[i]
              s == Last(settled_txns')
          IN /\ p.txn_type = "AUTHED"
             /\ p.txn_id = t.txn_id
             /\ pending_txns' = RemoveAt(pending_txns, i)
             /\ settled_txns' = Append(settled_txns, s)
             /\ s.txn_id = t.txn_id
             /\ available_credit'
                  = (available_credit + Val(p.amount)) - Val(s.amount)
             /\ payable_balance' = payable_balance + Val(s.amount)
             /\ (/\ pending_txns = <<p>>
                 /\ settled_txns = <<>>
                 /\ previos_txn_ids = {p.txn_id}
                 /\ t.amount = p.amount)
                  => /\ available_credit' = credit_limit - Val(p.amount)
                     /\ payable_balance' = Val(p.amount)
                     /\ pending_txns' = <<>>]_vars

\* A SETTLED txn was applied for an amount other than 0 while another txn
\* stays pending.
C13_Witness ==
  /\ LastApplied({"SETTLED"})
  /\ pending_txns # <<>>
  /\ Len(settled_txns) = 1
  /\ Val(Last(settled_txns).amount) = 1
  /\ payable_balance = 1

\* The txn applied before this step's txn opened this step's txn: the step's
\* txn immediately follows its opener, of the given type.
FollowsOpener(txn_type) ==
  /\ txn # None
  /\ Val(txn).txn_type = txn_type
  /\ Val(txn).txn_id = Val(txn').txn_id

\* C14: an applied AUTH_CLEARED txn for the pending CREDIT entry p adds p's
\* amount to available_credit and takes p out of pending_txns, the other
\* entries, payable_balance and settled_txns staying as they are.  An applied
\* AUTHED txn takes its amount from available_credit and appends itself to
\* pending_txns; so an AUTH_CLEARED txn right behind the AUTHED txn with its
\* id leaves the four as they were before the AUTHED txn.
C14_AuthClearedReleasesHold ==
  [][/\ (Applied /\ Val(txn').txn_type = "AUTH_CLEARED")
          => LET i == PendingIndex(pending_txns, Val(txn'))
                 p == pending_txns[i]
             IN /\ p.txn_type = "AUTHED"
                /\ p.txn_id = Val(txn').txn_id
                /\ available_credit' = available_credit + Val(p.amount)
                /\ pending_txns' = RemoveAt(pending_txns, i)
                /\ UNCHANGED <<payable_balance, settled_txns>>
     /\ (Applied /\ Val(txn').txn_type = "AUTHED")
          => /\ available_credit' = available_credit - Val(Val(txn').amount)
             /\ pending_txns' = Append(pending_txns, Val(txn'))
             /\ UNCHANGED <<payable_balance, settled_txns>>
     /\ (Applied /\ Val(txn').txn_type = "AUTH_CLEARED"
           /\ FollowsOpener("AUTHED"))
          => /\ available_credit' = available_credit + Val(Val(txn).amount)
             /\ pending_txns = Append(pending_txns', Val(txn))
             /\ UNCHANGED <<payable_balance, settled_txns>>]_vars

\* An AUTH_CLEARED txn was applied to the second of two authorized txns, the
\* first still pending and its hold still taken.
C14_Witness ==
  /\ LastApplied({"AUTH_CLEARED"})
  /\ previos_txn_ids = {1, 2}
  /\ Len(pending_txns) = 1
  /\ pending_txns[1].txn_type = "AUTHED"
  /\ Val(pending_txns[1].amount) = 1
  /\ available_credit = credit_limit - 1

\* C15: an applied PAYMENT_CANCELED txn for the pending PAYMENT entry p takes
\* p's amount from payable_balance and p out of pending_txns, the other
\* entries, available_credit and settled_txns staying as they are.  An
\* applied PAYMENT_INIT txn adds its amount to payable_balance and appends
\* itself to pending_txns; so a PAYMENT_CANCELED txn right behind the
\* PAYMENT_INIT txn with its id leaves the four as they were before the
\* PAYMENT_INIT txn.
C15_PaymentCanceledReverses ==
  [][/\ (Applied /\ Val(txn').txn_type = "PAYMENT_CANCELED")
          => LET i == PendingIndex(pending_txns, Val(txn'))
                 p == pending_txns[i]
             IN /\ p.txn_type = "PAYMENT_INIT"
                /\ p.txn_id = Val(txn').txn_id
                /\ payable_balance' = payable_balance - Val(p.amount)
                /\ pending_txns' = RemoveAt(pending_txns, i)
                /\ UNCHANGED <<available_credit, settled_txns>>
     /\ (Applied /\ Val(txn').txn_type = "PAYMENT_INIT")
          => /\ payable_balance' = payable_balance + Val(Val(txn').amount)
             /\ pending_txns' = Append(pending_txns, Val(txn'))
             /\ UNCHANGED <<available_credit, settled_txns>>
     /\ (Applied /\ Val(txn').txn_type = "PAYMENT_CANCELED"
           /\ FollowsOpener("PAYMENT_INIT"))
          => /\ payable_balance' = payable_balance - Val(Val(txn).amount)
             /\ pending_txns = Append(pending_txns', Val(txn))
             /\ UNCHANGED <<available_credit, settled_txns>>]_vars

\* A PAYMENT_CANCELED txn was applied to the second of two txns, the first an
\* authorized txn still pending.
C15_Witness ==
  /\ LastApplied({"PAYMENT_CANCELED"})
  /\ previos_txn_ids = {1, 2}
  /\ Len(pending_txns) = 1
  /\ pending_txns[1].txn_type = "AUTHED"
  /\ payable_balance = 0
  /\ available_credit = credit_limit - Val(pending_txns[1].amount)

\* C16: an applied PAYMENT_POSTED txn for the pending PAYMENT entry p takes
\* p's amount, whatever amount the txn itself carries, from available_credit,
\* takes p out of pending_txns and appends one record to settled_txns, the
\* other entries and payable_balance staying as they are.
C16_PaymentPostedEffect ==
  [][(Applied /\ Val(txn').txn_type = "PAYMENT_POSTED")
       => LET i == PendingIndex(pending_txns, Val(txn'))
              p == pending_txns[i]
          IN /\ p.txn_type = "PAYMENT_INIT"
             /\ p.txn_id = Val(txn').txn_id
             /\ available_credit' = available_credit - Val(p.amount)
             /\ pending_txns' = RemoveAt(pending_txns, i)
             /\ settled_txns' = Append(settled_txns, Last(settled_txns'))
             /\ Last(settled_txns').txn_id = Val(txn').txn_id
             /\ UNCHANGED payable_balance]_vars

\* A PAYMENT_POSTED txn carrying -1 was applied to the only txn opened, a
\* payment of 1: available_credit went down by the payment's 1.
C16_Witness ==
  /\ LastApplied({"PAYMENT_POSTED"})
  /\ Val(txn).amount = Some(-1)
  /\ Cardinality(previos_txn_ids) = 1
  /\ Len(settled_txns) = 1
  /\ pending_txns = <<>>
  /\ payable_balance = 1
  /\ available_credit = credit_limit - 1

\* C17: process_account called again on the record of a ledger it returned
\* (and that get_summary has not sorted yet) returns a ledger with the same
\* available_credit, payable_balance, pending_txns and settled_txns.
C17_ProcessAccountRepeatable ==
  [][(pc = "account" /\ summary = None /\ NewLedger)
       => /\ pc' = "account"
          /\ UNCHANGED <<available_credit, payable_balance,
                         pending_txns, settled_txns>>]_vars

\* C18: in every state of a ledger to which txns of any of the six types
\* were applied, available_credit plus payable_balance plus the amounts of
\* the pending AUTHED entries minus the amounts of the pending PAYMENT_INIT
\* entries equals credit_limit.
C18_LedgerBalances ==
  pc \in {"processing", "account"}
    => (available_credit + payable_balance + PendingCredit) - PendingPayment
         = credit_limit

\* A payment for an amount other than 0 is pending behind a settled txn that
\* left available_credit off the limit.
C18_Witness ==
  /\ pc \in {"processing", "account"}
  /\ Len(settled_txns) = 1
  /\ settled_txns[1].txn_type = "SETTLED"
  /\ PendingPayment # 0
  /\ available_credit # credit_limit

\* C19: a txn that raises (repeated id, insufficient funds, payment too
\* large, pending not found, class mismatch) leaves available_credit,
\* payable_balance, pending_txns and settled_txns as they were before it.
C19_FailedTxnLeavesLedger ==
  [][(Stepped /\ error' # NoError)
       => /\ error' \in Errors
          /\ pc' = "raised"
          /\ UNCHANGED <<available_credit, payable_balance,
                         pending_txns, settled_txns>>]_vars

\* An AUTHED txn raised insufficient-funds behind a settled txn: its id is
\* reserved, and it is not pending.
C19_Witness ==
  /\ pc = "raised"
  /\ error = "InsufficientFunds"
  /\ settled_txns # <<>>
  /\ Val(txn).txn_id \in previos_txn_ids
  /\ Val(txn).txn_id \notin PendingIds
  /\ Val(txn).txn_id \notin TxnIdsOf(settled_txns)

\* C20: every record of settled_txns has the id of one applied opener, no two
\* records share an id, and its initial_time is at most its time.  The record
\* an applied SETTLED or PAYMENT_POSTED txn appends has the id and, as
\* initial_time, the time of the pending entry it resolves, which is the
\* opener as it was applied, and the time of the resolving txn; and a record
\* stays in the list of its ledger as it is.
C20_SettledRecordTimes ==
  /\ [](\A i \in 1..Len(settled_txns) :
          /\ settled_txns[i].txn_id \in previos_txn_ids
          /\ settled_txns[i].txn_id \notin PendingIds
          /\ \A j \in 1..Len(settled_txns) :
               settled_txns[i].txn_id = settled_txns[j].txn_id => i = j
          /\ settled_txns[i].initial_time # None
          /\ Val(settled_txns[i].initial_time) <= settled_txns[i].time)
  /\ [][/\ (Applied /\ Val(txn').txn_type \in Openers)
             => Last(pending_txns') = Val(txn')
        /\ (Applied /\ Val(txn').txn_type \in {"SETTLED", "PAYMENT_POSTED"})
             => LET p == PendingOf(Val(txn'))
                    r == Last(settled_txns')
                IN /\ settled_txns' = Append(settled_txns, r)
                   /\ p.txn_type \in Openers
                   /\ r.txn_id = p.txn_id
                   /\ r.initial_time = Some(p.time)
                   /\ r.time = Val(txn').time
                   /\ p.time <= r.time
        /\ ~NewLedger => Records(settled_txns) \subseteq Records(settled_txns')
       ]_vars

\* A txn opened at time 1 was resolved at time 2.
C20_Witness ==
  /\ LastApplied({"SETTLED", "PAYMENT_POSTED"})
  /\ Len(settled_txns) = 1
  /\ settled_txns[1].initial_time = Some(1)
  /\ settled_txns[1].time = 2
  /\ Val(txn).time = 2

====
